---------------------------- MODULE Spec2Model ----------------------------
(***************************************************************************)
(* Model of resource_management/libraries/script/script.py (class Script): *)
(* the execution envelope Script.execute, the structured-output reporter   *)
(* Script.put_structured_out and the default install handler.              *)
(*                                                                         *)
(* Names (command names, attribute names) are sequences of ASCII codes so  *)
(* that str.lower is computed character by character.                      *)
(***************************************************************************)
EXTENDS Integers, Sequences, FiniteSets, TLC

(***************************************************************************)
(* Bounds of the model.                                                    *)
(***************************************************************************)
\* largest number of positional arguments after the program name
MaxArgs == 4
\* largest number of put_structured_out calls one handler makes
MaxReports == 2
\* longest package list found in the configuration
MaxPkgs == 2

(***************************************************************************)
(* Names.                                                                  *)
(***************************************************************************)
\* "start"
n_start == <<115, 116, 97, 114, 116>>
\* "START"
n_START == <<83, 84, 65, 82, 84>>
\* "Stop"
n_Stop == <<83, 116, 111, 112>>
\* "stop"
n_stop == <<115, 116, 111, 112>>
\* "install"
n_install == <<105, 110, 115, 116, 97, 108, 108>>
\* "install_packages"
n_install_packages == <<105, 110, 115, 116, 97, 108, 108, 95, 112, 97, 99, 107, 97, 103, 101, 115>>
\* "execute"
n_execute == <<101, 120, 101, 99, 117, 116, 101>>
\* "get_config"
n_get_config == <<103, 101, 116, 95, 99, 111, 110, 102, 105, 103>>
\* "put_structured_out"
n_put_structured_out == <<112, 117, 116, 95, 115, 116, 114, 117, 99, 116, 117, 114, 101, 100, 95, 111, 117, 116>>
\* "fail_with_error"
n_fail_with_error == <<102, 97, 105, 108, 95, 119, 105, 116, 104, 95, 101, 114, 114, 111, 114>>
\* "structuredOut"
n_structuredOut == <<115, 116, 114, 117, 99, 116, 117, 114, 101, 100, 79, 117, 116>>
\* "config"
n_config == <<99, 111, 110, 102, 105, 103>>
\* "stroutfile"
n_stroutfile == <<115, 116, 114, 111, 117, 116, 102, 105, 108, 101>>
\* "__doc__"
n_doc == <<95, 95, 100, 111, 99, 95, 95>>
\* "__module__"
n_module == <<95, 95, 109, 111, 100, 117, 108, 101, 95, 95>>
\* "bogus"
n_bogus == <<98, 111, 103, 117, 115>>

\* a variant that leaves the command name as given
LowerIdentity(s) == s

\* str.lower on an ASCII string: 'A'..'Z' (65..90) move to 'a'..'z'
Lower(s) == [i \in 1..Len(s) |-> IF s[i] \in 65..90 THEN s[i] + 32 ELSE s[i]]

(***************************************************************************)
(* The Script object and its attributes.                                   *)
(***************************************************************************)
\* methods that class Script defines
ScriptMethods ==
  { n_put_structured_out, n_execute, n_get_config, n_install,
    n_install_packages, n_fail_with_error }

\* what dir() lists for a Script instance before execute has run: the
\* methods, the class field structuredOut and the class's __doc__, __module__
ClassAttrs == ScriptMethods \cup { n_structuredOut, n_doc, n_module }

\* methods of Script that take (self, env), so that method(env) runs them
EnvMethods == { n_install, n_install_packages }

\* the handler sources of the model: the operations a concrete subclass of
\* Script adds (each takes the environment as its single argument)
HandlerSources == { {}, {n_start, n_Stop} }

\* the command names given on the command line
CommandNames ==
  { n_start, n_START, n_stop, n_install, n_config, n_execute, n_bogus }

\* the remaining positional arguments: config path, basedir, output path, extras
ArgTail == <<"command.json", "basedir", "out.json", "extra", "extra2">>

\* argument vectors after the program name, of length 0..MaxArgs
Argvs ==
  { <<>> } \cup
  { <<c>> \o SubSeq(ArgTail, 1, n - 1) : c \in CommandNames, n \in 1..MaxArgs }

(***************************************************************************)
(* The configuration file.                                                 *)
(***************************************************************************)
PkgNames == { "foo", "bar" }

\* a package descriptor: a JSON object with or without the key "name"
Descriptors == { [name |-> <<p>>] : p \in PkgNames } \cup { [name |-> <<>>] }

RECURSIVE SeqsUpTo(_, _)
SeqsUpTo(S, n) ==
  IF n = 0 THEN { <<>> }
  ELSE LET shorter == SeqsUpTo(S, n - 1)
       IN shorter \cup { Append(s, x) : s \in { t \in shorter : Len(t) = n - 1 }, x \in S }

\* the JSON document in the command file, as far as install_packages reads it:
\*   hlp   whether the key hostLevelParams is present
\*   pl    the value of hostLevelParams.package_list: "absent", "empty" (''),
\*         "notstr" (not a string), "badjson" (a string that is no JSON),
\*         "list" (a string holding a JSON array of descriptors)
\*   list  the descriptors of that array
NoPackages(hlp, pl) == [hlp |-> hlp, pl |-> pl, list |-> <<>>]

ConfigContents ==
  { NoPackages(FALSE, "absent"), NoPackages(TRUE, "absent"),
    NoPackages(TRUE, "empty"), NoPackages(TRUE, "notstr"),
    NoPackages(TRUE, "badjson") } \cup
  { [hlp |-> TRUE, pl |-> "list", list |-> l] : l \in SeqsUpTo(Descriptors, MaxPkgs) }

\* the command file on disk: unreadable, not JSON, or a JSON document
ConfigFiles ==
  { [state |-> "unreadable", content |-> NoPackages(FALSE, "absent")],
    [state |-> "invalid", content |-> NoPackages(FALSE, "absent")] } \cup
  { [state |-> "ok", content |-> c] : c \in ConfigContents }


\* the documents every command is run with; the other documents differ from
\* these only in the package list, which install_packages alone reads
BaseContents == { NoPackages(FALSE, "absent") }

\* the inputs of one invocation: the package-list variants are enumerated for
\* the commands that reach install_packages
Inputs ==
  { i \in [argv : Argvs, file : ConfigFiles, source : HandlerSources] :
      \/ i.file.content \in BaseContents
      \/ /\ Len(i.argv) >= 1
         /\ Lower(i.argv[1]) \in EnvMethods }

(***************************************************************************)
(* JSON.  A Python value is a dict or a str; a JSON text is an object or a *)
(* string literal.  The characters of a str produced by json.dumps are a   *)
(* JSON text, kept here as that text.                                      *)
(***************************************************************************)
EmptyMap == [k \in {} |-> ""]

PyDict(m) == [type |-> "dict", dict |-> m, text |-> <<>>]

PyStr(t) == [type |-> "str", dict |-> EmptyMap, text |-> <<t>>]

\* json.dumps / json.dump: a dict becomes a JSON object, a str a JSON string
json_dumps(v) ==
  IF v.type = "dict"
  THEN [root |-> "object", members |-> v.dict, chars |-> <<>>]
  ELSE [root |-> "string", members |-> EmptyMap, chars |-> v.text]

\* json.loads: a JSON object becomes a dict, a JSON string literal a str
json_loads(t) ==
  IF t.root = "object" THEN PyDict(t.members) ELSE PyStr(t.chars[1])

(***************************************************************************)
(* Structured output.                                                      *)
(***************************************************************************)
\* the field mappings a handler reports
Souts ==
  { ("a" :> "1"), ("b" :> "2"), ("a" :> "3"), ("errMsg" :> "x") }

\* what happens to the output file during one put_structured_out:
\*   "ok"          open, write and close succeed
\*   "open_fail"   open(stroutfile, 'w') raises IOError; the file is untouched
\*   "write_fail"  open succeeds (truncating the file) and the write or the
\*                 close raises IOError
IoOutcomes == { "ok", "open_fail", "write_fail" }

\* a variant of dict.update that keeps the value a key already has
DictUpdateFirstWins(m, s) ==
  [k \in DOMAIN m \cup DOMAIN s |-> IF k \in DOMAIN m THEN m[k] ELSE s[k]]

\* dict.update
DictUpdate(m, s) ==
  [k \in DOMAIN m \cup DOMAIN s |-> IF k \in DOMAIN s THEN s[k] ELSE m[k]]

\* a variant of the except clause that records nothing
ErrMsgNone(path) == EmptyMap

\* {"errMsg" : "Unable to write to " + self.stroutfile}
ErrMsg(path) == ("errMsg" :> ("Unable to write to " \o path))

\* what put_structured_out writes into the file: the dict is serialized by
\* json.dumps and the resulting str is serialized again by json.dump
FileTextOf(m) == json_dumps(PyStr(json_dumps(PyDict(m))))

(***************************************************************************)
(* Exit statuses.                                                          *)
(***************************************************************************)
\* len(sys.argv) < 5
MinArgv == 5
\* a variant of the argument check that exits with status 0
ArgsExitStatusZero == 1 - 1

\* sys.exit(1) after "Script expects at least 4 arguments"
ArgsExitStatus == 1
\* sys.exit(1) after "Can not read json file with command parameters"
ConfigExitStatus == 1
\* sys.exit(1) after "Script ... has not method ..."
NoMethodExitStatus == 1
\* sys.exit(1) after "Got exception while executing method ..."
FailExitStatus == 1
\* sys.exit(1) in fail_with_error
FailWithErrorStatus == 1
\* execute returns
ReturnStatus == 0
\* an exception nothing catches ends the interpreter with status 1
UncaughtStatus == 1
\* the process has not ended
Running == 0 - 1

VARIABLES
  argv,           \* sys.argv[1:]
  cfgFile,        \* the file at sys.argv[2]
  handlerSource,  \* the operations of the concrete subclass
  pc,             \* position in execute
  loggers,        \* handlers added to the 'resource_management' logger
  command_name,   \* the local command_name, <<>> before it is set
  stroutfile,     \* self.stroutfile, <<>> before it is set
  config,         \* Script.config, <<>> before it is assigned
  attrs,          \* dir(self)
  method,         \* the local method, <<>> before it is set
  env,            \* the Environment: "none", "acquired", "released"
  invoked,        \* the handlers invoked, in order
  exc,            \* the exception in flight, "none" without one
  exitStatus,     \* the exit status of the process, Running before it ends
  exitHow,        \* "running", "return", "sys_exit", "uncaught"
  log,            \* the error records given to the logger
  stderr,         \* the lines written to sys.stderr
  steps,          \* history: the steps of execute taken so far, in order
  structuredOut,  \* Script.structuredOut
  outFile,        \* the file at stroutfile: <<>> without a JSON text, else <<text>>
  hist,           \* history: every dict.update applied to Script.structuredOut
  lastGood,       \* history: Script.structuredOut at the last write that succeeded
  calls,          \* the collaborator calls made by install_packages, in order
  pkgs,           \* the descriptors install_packages has still to install
  excFrom,        \* history: what raised the exception in install_packages
  keyErrors       \* history: the KeyErrors that except KeyError has caught

vars ==
  << argv, cfgFile, handlerSource, pc, loggers, command_name, stroutfile,
     config, attrs, method, env, invoked, exc, exitStatus, exitHow, log,
     stderr, steps, structuredOut, outFile, hist, lastGood, calls, pkgs,
     excFrom, keyErrors >>

inputVars == << argv, cfgFile, handlerSource >>

outVars == << structuredOut, outFile, hist, lastGood >>

installVars == << calls, pkgs, excFrom, keyErrors >>

Init ==
  /\ \E i \in Inputs :
       /\ argv = i.argv
       /\ cfgFile = i.file
       /\ handlerSource = i.source
       /\ attrs = ClassAttrs \cup i.source
  /\ pc = "start"
  /\ loggers = {}
  /\ command_name = <<>>
  /\ stroutfile = <<>>
  /\ config = <<>>
  /\ method = <<>>
  /\ env = "none"
  /\ invoked = <<>>
  /\ exc = "none"
  /\ exitStatus = Running
  /\ exitHow = "running"
  /\ log = <<>>
  /\ stderr = <<>>
  /\ structuredOut = EmptyMap
  /\ outFile = <<>>
  /\ hist = <<>>
  /\ lastGood = <<>>
  /\ calls = <<>>
  /\ pkgs = <<>>
  /\ steps = <<>>
  /\ excFrom = "none"
  /\ keyErrors = 0

(***************************************************************************)
(* Helpers of execute.                                                     *)
(***************************************************************************)
\* a record given to logger.error or logger.exception; name is the command
\* name formatted into the message, <<>> when the message has none
LogRecord(msg, name) == [msg |-> msg, name |-> name]

\* the line the logger's stderr handler writes for an ERROR record, after
\* the formatter '%(asctime)s - %(name)s - %(levelname)s - %(message)s'
LogLine(msg) == [prefix |-> "asctime - resource_management - ERROR - ", msg |-> msg]

\* the traceback the interpreter writes for an exception nothing catches
TracebackLine(e) == [prefix |-> "Traceback (most recent call last): ", msg |-> e]

\* logger.error(msg) / logger.exception(msg): the record goes to every
\* handler of the logger; the stderr handler writes records of level ERROR
LogError(msg, name) ==
  /\ log' = Append(log, LogRecord(msg, name))
  /\ stderr' = IF "stderr" \in loggers THEN Append(stderr, LogLine(msg)) ELSE stderr

\* if len(sys.argv) < 5
ArgvTooShort(a) == Len(a) + 1 < MinArgv

\* a variant of the load that leaves Script.config unassigned
LoadedConfigUnassigned(f) == <<>>

\* Script.config = ConfigDictionary(json.load(f))
LoadedConfig(f) == <<f.content>>

\* a variant of the except clause that catches every exception
CaughtAny(e) == e # "none"

\* except Fail: the exceptions the envelope catches
Caught(e) == e = "Fail"

\* a variant that releases the environment on return and on Fail only
ReleasedOnKnownOutcome(e) == e \in { "none", "Fail" }

\* with Environment(basedir) as env: leaving the block calls __exit__,
\* whatever exception is in flight
ReleasedOn(e) == TRUE

\* sys.exit(status)
SysExit(status) ==
  /\ exitStatus' = status
  /\ exitHow' = "sys_exit"
  /\ pc' = "done"

\* an exception leaves execute: the interpreter prints the traceback and ends
Uncaught(e) ==
  /\ exc' = e
  /\ stderr' = Append(stderr, TracebackLine(e))
  /\ exitStatus' = UncaughtStatus
  /\ exitHow' = "uncaught"
  /\ pc' = "done"

(***************************************************************************)
(* execute, step by step.                                                  *)
(***************************************************************************)
\* the two StreamHandlers are added to the logger
SetupLogging ==
  /\ pc = "start"
  /\ loggers' = { "stderr", "stdout" }
  /\ pc' = "logging"
  /\ steps' = Append(steps, "SetupLogging")
  /\ UNCHANGED << inputVars, command_name, stroutfile, config, attrs, method,
                  env, invoked, exc, exitStatus, exitHow, log, stderr,
                  outVars, installVars >>

\* the length check and the reading of sys.argv[1..4]
ParseArgs ==
  /\ pc = "logging"
  /\ steps' = Append(steps, "ParseArgs")
  /\ IF ArgvTooShort(argv)
     THEN /\ LogError("Script expects at least 4 arguments", <<>>)
          /\ SysExit(ArgsExitStatus)
          /\ UNCHANGED << command_name, stroutfile, attrs >>
     ELSE /\ command_name' = Lower(argv[1])
          /\ stroutfile' = <<argv[4]>>
          /\ attrs' = attrs \cup { n_stroutfile }
          /\ pc' = "parsed"
          /\ UNCHANGED << log, stderr, exitStatus, exitHow >>
  /\ UNCHANGED << inputVars, loggers, config, method, env, invoked, exc,
                  outVars, installVars >>

\* open(command_data_file), json.load, the assignment of Script.config
LoadConfig ==
  /\ pc = "parsed"
  /\ steps' = Append(steps, "LoadConfig")
  /\ CASE cfgFile.state = "unreadable" ->
            \* open raises IOError, which the except clause catches
            /\ LogError("Can not read json file with command parameters: ", <<>>)
            /\ SysExit(ConfigExitStatus)
            /\ UNCHANGED << config, attrs, exc >>
       [] cfgFile.state = "invalid" ->
            \* json.load raises ValueError, which no except clause catches
            /\ Uncaught("ValueError")
            /\ UNCHANGED << config, attrs, log >>
       [] cfgFile.state = "ok" ->
            /\ config' = LoadedConfig(cfgFile)
            /\ attrs' = attrs \cup { n_config }
            /\ pc' = "loaded"
            /\ UNCHANGED << log, stderr, exc, exitStatus, exitHow >>
  /\ UNCHANGED << inputVars, loggers, command_name, stroutfile, method, env,
                  invoked, outVars, installVars >>

\* self_methods = dir(self); the membership test; getattr
Resolve ==
  /\ pc = "loaded"
  /\ steps' = Append(steps, "Resolve")
  /\ IF command_name \notin attrs
     THEN /\ LogError("Script has not method", command_name)
          /\ SysExit(NoMethodExitStatus)
          /\ UNCHANGED method
     ELSE /\ method' = <<command_name>>
          /\ pc' = "resolved"
          /\ UNCHANGED << log, stderr, exitStatus, exitHow >>
  /\ UNCHANGED << inputVars, loggers, command_name, stroutfile, config, attrs,
                  env, invoked, exc, outVars, installVars >>

\* a variant that acquires the environment before the command is resolved
AcquireEnvironmentEarly ==
  /\ pc = "loaded"
  /\ env = "none"
  /\ env' = "acquired"
  /\ steps' = Append(steps, "AcquireEnvironment")
  /\ UNCHANGED << inputVars, pc, loggers, command_name, stroutfile, config,
                  attrs, method, invoked, exc, exitStatus, exitHow, log,
                  stderr, outVars, installVars >>

\* with Environment(basedir) as env
AcquireEnvironment ==
  /\ pc = "resolved"
  /\ env' = "acquired"
  /\ pc' = "in_env"
  /\ steps' = Append(steps, "AcquireEnvironment")
  /\ UNCHANGED << inputVars, loggers, command_name, stroutfile, config, attrs,
                  method, invoked, exc, exitStatus, exitHow, log, stderr,
                  outVars, installVars >>

\* method(env): an operation of the subclass or install/install_packages
\* starts running; any other attribute raises TypeError when called with env
Invoke ==
  /\ pc = "in_env"
  /\ steps' = Append(steps, "Dispatch")
  /\ CASE method[1] \in handlerSource ->
            /\ invoked' = Append(invoked, method[1])
            /\ pc' = "in_handler"
            /\ UNCHANGED exc
       [] method[1] \in EnvMethods \ handlerSource ->
            /\ invoked' = Append(invoked, method[1])
            /\ pc' = "ip_repos"
            /\ UNCHANGED exc
       [] OTHER ->
            /\ exc' = "TypeError"
            /\ pc' = "unwinding"
            /\ UNCHANGED invoked
  /\ UNCHANGED << inputVars, loggers, command_name, stroutfile, config, attrs,
                  method, env, exitStatus, exitHow, log, stderr, outVars,
                  installVars >>

\* the with block is left: Environment.__exit__ runs
ReleaseEnvironment ==
  /\ pc = "unwinding"
  /\ env' = IF ReleasedOn(exc) THEN "released" ELSE env
  /\ pc' = "after_with"
  /\ steps' = Append(steps, "ReleaseEnvironment")
  /\ UNCHANGED << inputVars, loggers, command_name, stroutfile, config, attrs,
                  method, invoked, exc, exitStatus, exitHow, log, stderr,
                  outVars, installVars >>

\* except Fail, and the end of execute
Exit ==
  /\ pc = "after_with"
  /\ steps' = Append(steps, "Exit")
  /\ CASE exc = "none" ->
            /\ exitStatus' = ReturnStatus
            /\ exitHow' = "return"
            /\ pc' = "done"
            /\ UNCHANGED << log, stderr, exc >>
       [] exc # "none" /\ Caught(exc) ->
            /\ LogError("Got exception while executing method", command_name)
            /\ SysExit(FailExitStatus)
            /\ UNCHANGED exc
       [] exc = "SystemExit" /\ ~Caught(exc) ->
            \* sys.exit(1) of fail_with_error
            /\ SysExit(FailWithErrorStatus)
            /\ UNCHANGED << log, stderr, exc >>
       [] OTHER ->
            /\ Uncaught(exc)
            /\ UNCHANGED log
  /\ UNCHANGED << inputVars, loggers, command_name, stroutfile, config, attrs,
                  method, env, invoked, outVars, installVars >>

(***************************************************************************)
(* A handler of the subclass: it may report structured output, end with    *)
(* fail_with_error, return, or raise.                                      *)
(***************************************************************************)
\* history records: a reported mapping with the outcome of its write, and
\* the errMsg mapping merged after a failed write
Reported(sout, io) == [kind |-> "report", io |-> io, map |-> sout]

Recorded(m) == [kind |-> "errMsg", io |-> "none", map |-> m]

NumReports == Cardinality({ i \in 1..Len(hist) : hist[i].kind = "report" })

\* put_structured_out(sout), with io what happens to the output file
put_structured_out(sout, io) ==
  /\ pc = "in_handler"
  /\ NumReports < MaxReports
  /\ LET merged == DictUpdate(structuredOut, sout)
         failed == DictUpdate(merged, ErrMsg(stroutfile[1]))
     IN CASE io = "ok" ->
               /\ structuredOut' = merged
               /\ outFile' = <<FileTextOf(merged)>>
               /\ hist' = Append(hist, Reported(sout, io))
               /\ lastGood' = <<merged>>
          [] io = "open_fail" ->
               /\ structuredOut' = failed
               /\ hist' = hist \o << Reported(sout, io), Recorded(ErrMsg(stroutfile[1])) >>
               /\ UNCHANGED << outFile, lastGood >>
          [] io = "write_fail" ->
               \* the file was truncated by open and holds no complete text
               /\ structuredOut' = failed
               /\ outFile' = <<>>
               /\ hist' = hist \o << Reported(sout, io), Recorded(ErrMsg(stroutfile[1])) >>
               /\ UNCHANGED lastGood
  /\ UNCHANGED << inputVars, pc, loggers, command_name, stroutfile, config,
                  attrs, method, env, invoked, exc, exitStatus, exitHow, log,
                  stderr, steps, installVars >>

Report == \E sout \in Souts, io \in IoOutcomes : put_structured_out(sout, io)

\* a variant of fail_with_error that writes the message alone
ErrorLineBare(message) == [prefix |-> "", msg |-> message]

\* "Error: " + message
ErrorLine(message) == [prefix |-> "Error: ", msg |-> message]

\* the messages a handler gives to fail_with_error
Messages == { "message" }

\* fail_with_error(message): prints the line (print, and sys.stderr.write)
\* and calls sys.exit(1)
fail_with_error ==
  /\ pc = "in_handler"
  /\ \E message \in Messages : stderr' = Append(stderr, ErrorLine(message))
  /\ exc' = "SystemExit"
  /\ pc' = "unwinding"
  /\ UNCHANGED << inputVars, loggers, command_name, stroutfile, config, attrs,
                  method, env, invoked, exitStatus, exitHow, log, steps,
                  outVars, installVars >>

\* the handler returns
HandlerReturn ==
  /\ pc = "in_handler"
  /\ pc' = "unwinding"
  /\ UNCHANGED << inputVars, loggers, command_name, stroutfile, config, attrs,
                  method, env, invoked, exc, exitStatus, exitHow, log, stderr,
                  steps, outVars, installVars >>

\* the handler raises Fail, or an exception of another kind
HandlerRaise ==
  /\ pc = "in_handler"
  /\ \E e \in { "Fail", "Error" } : exc' = e
  /\ pc' = "unwinding"
  /\ UNCHANGED << inputVars, loggers, command_name, stroutfile, config, attrs,
                  method, env, invoked, exitStatus, exitHow, log, stderr,
                  steps, outVars, installVars >>

(***************************************************************************)
(* install and install_packages.                                           *)
(***************************************************************************)
\* what a collaborator call does: return, raise Fail, or raise an exception
\* of another kind (other than KeyError)
Outcomes == { "ok", "Fail", "Error" }

Call(op, arg) == [op |-> op, arg |-> arg]

\* the variables of execute that install_packages leaves alone
envelopeVars ==
  << inputVars, loggers, command_name, stroutfile, config, attrs, method, env,
     invoked, exitStatus, exitHow, log, stderr, steps, outVars >>

\* a variant of the except clause that catches every exception
AbsorbedAny(e) == TRUE

\* a variant of the except clause that catches nothing
AbsorbedNone(e) == FALSE

\* except KeyError: pass
AbsorbedByExcept(e) == e = "KeyError"

\* a variant in which cleanup follows a failed registration
AfterReposFailureCleanup == "ip_cleanup"

\* RepoInstaller.install_repos raised: the exception leaves install_packages
AfterReposFailure == "unwinding"

\* a variant of the loop that stops one descriptor early
PackageListButLast(c) == SubSeq(c.list, 1, Len(c.list) - 1)

\* package_list = json.loads(package_list_str)
PackageList(c) == c.list

\* an exception e raised by `from` inside the try block: the except clause
\* absorbs it and the statement after the try block is next, or it leaves
\* install_packages
RaisedInTry(e, from) ==
  IF AbsorbedByExcept(e)
  THEN /\ pc' = "ip_cleanup"
       /\ keyErrors' = keyErrors + 1
       /\ UNCHANGED << exc, excFrom >>
  ELSE /\ pc' = "unwinding"
       /\ exc' = e
       /\ excFrom' = from
       /\ UNCHANGED keyErrors

\* config = self.get_config(); RepoInstaller.install_repos(config)
InstallRepos ==
  /\ pc = "ip_repos"
  /\ IF config = <<>>
     THEN \* Script.config does not exist
          /\ exc' = "AttributeError"
          /\ excFrom' = "get_config"
          /\ pc' = "unwinding"
          /\ UNCHANGED calls
     ELSE \E o \in Outcomes :
            /\ calls' = Append(calls, Call("install_repos", ""))
            /\ IF o = "ok"
               THEN pc' = "ip_read" /\ UNCHANGED << exc, excFrom >>
               ELSE pc' = AfterReposFailure /\ exc' = o /\ excFrom' = "install_repos"
  /\ UNCHANGED << envelopeVars, pkgs, keyErrors >>

\* the lookup of config['hostLevelParams']['package_list'], the test of the
\* string and json.loads
ReadPackageList ==
  /\ pc = "ip_read"
  /\ LET c == config[1]
     IN CASE ~c.hlp \/ c.pl = "absent" ->
               \* the lookup raises KeyError
               /\ RaisedInTry("KeyError", "lookup")
               /\ UNCHANGED pkgs
          [] c.hlp /\ c.pl \in { "empty", "notstr" } ->
               /\ pc' = "ip_cleanup"
               /\ UNCHANGED << exc, excFrom, keyErrors, pkgs >>
          [] c.hlp /\ c.pl = "badjson" ->
               \* json.loads raises ValueError
               /\ RaisedInTry("ValueError", "json.loads")
               /\ UNCHANGED pkgs
          [] c.hlp /\ c.pl = "list" ->
               /\ pkgs' = PackageList(c)
               /\ pc' = "ip_loop"
               /\ UNCHANGED << exc, excFrom, keyErrors >>
  /\ UNCHANGED << envelopeVars, calls >>

\* one turn of the loop: name = package['name']; Package(name)
InstallPackage ==
  /\ pc = "ip_loop"
  /\ CASE pkgs = <<>> ->
            /\ pc' = "ip_cleanup"
            /\ UNCHANGED << exc, excFrom, keyErrors, pkgs, calls >>
       [] pkgs # <<>> /\ Head(pkgs).name = <<>> ->
            \* package['name'] raises KeyError
            /\ RaisedInTry("KeyError", "name")
            /\ UNCHANGED << pkgs, calls >>
       [] pkgs # <<>> /\ Head(pkgs).name # <<>> ->
            \E o \in Outcomes :
              /\ calls' = Append(calls, Call("Package", Head(pkgs).name[1]))
              /\ IF o = "ok"
                 THEN pkgs' = Tail(pkgs) /\ UNCHANGED << pc, exc, excFrom, keyErrors >>
                 ELSE RaisedInTry(o, "Package") /\ UNCHANGED pkgs
  /\ UNCHANGED envelopeVars

\* RepoInstaller.remove_repos(config), and the return of install_packages
RemoveRepos ==
  /\ pc = "ip_cleanup"
  /\ \E o \in Outcomes :
       /\ calls' = Append(calls, Call("remove_repos", ""))
       /\ pc' = "unwinding"
       /\ exc' = IF o = "ok" THEN exc ELSE o
       /\ excFrom' = IF o = "ok" THEN excFrom ELSE "remove_repos"
  /\ UNCHANGED << envelopeVars, pkgs, keyErrors >>

Next ==
  \/ SetupLogging
  \/ ParseArgs
  \/ LoadConfig
  \/ Resolve
  \/ AcquireEnvironment
  \/ Invoke
  \/ Report
  \/ fail_with_error
  \/ HandlerReturn
  \/ HandlerRaise
  \/ InstallRepos
  \/ ReadPackageList
  \/ InstallPackage
  \/ RemoveRepos
  \/ ReleaseEnvironment
  \/ Exit

Spec == Init /\ [][Next]_vars

(***************************************************************************)
(* Helpers of the properties.                                              *)
(***************************************************************************)
\* the positions at which a handler is executing
HandlerPcs == { "in_handler", "ip_repos", "ip_read", "ip_loop", "ip_cleanup" }

\* the logger was given a record with this message
Logged(msg) == \E i \in 1..Len(log) : log[i].msg = msg

\* the callable members of the Script object: the operations of the subclass
\* and the methods of Script
Operations == handlerSource \cup ScriptMethods

\* the mapping obtained by merging the mappings of h from left to right:
\* its keys are the keys of all of them, each with the value of the last
\* mapping that has it
IsMergeOf(m, h) ==
  /\ DOMAIN m = UNION { DOMAIN h[i].map : i \in 1..Len(h) }
  /\ \A k \in DOMAIN m :
       LET last == CHOOSE i \in 1..Len(h) :
                     /\ k \in DOMAIN h[i].map
                     /\ \A j \in (i + 1)..Len(h) : k \notin DOMAIN h[j].map
       IN m[k] = h[last].map[k]

IsReport(r) == r.kind = "report"

\* the mapping a reader gets from the output file by decoding until a
\* mapping appears
Snapshot(t) ==
  LET once == json_loads(t)
  IN IF once.type = "dict" THEN once.dict ELSE json_loads(once.text[1]).dict

\* the last put_structured_out call wrote the file successfully
LastWriteOk == hist # <<>> /\ hist[Len(hist)].kind = "report" /\ hist[Len(hist)].io = "ok"

\* some write has failed
SomeWriteFailed == \E i \in 1..Len(hist) : hist[i].kind = "errMsg"

(***************************************************************************)
(* Properties.                                                             *)
(***************************************************************************)
\* C1: an invocation with fewer than four positional arguments ends with exit
\* status 1, and never loads or assigns a Configuration, never acquires an
\* environment and never invokes a handler.
C1_TooFewArguments ==
  Len(argv) < 4 =>
    /\ config = <<>>
    /\ env = "none"
    /\ invoked = <<>>
    /\ pc \in { "start", "logging", "done" }
    /\ pc = "done" => exitStatus = 1

C1_Witness == Len(argv) = 3 /\ pc = "done" /\ exitStatus = 1

\* C2: a command name that, lowercased, is not an operation of the handler
\* source ends with the command-not-found diagnostic and exit status 1, and
\* no handler has been invoked.
C2_UnknownCommandRejected ==
  (pc = "done" /\ config # <<>> /\ command_name \notin Operations) =>
    /\ Logged("Script has not method")
    /\ exitStatus = 1
    /\ exitHow = "sys_exit"
    /\ invoked = <<>>

\* C3: an environment that was acquired has been released when the process
\* ends, whatever the handler did: there is no final state with an
\* environment acquired and not released.
C3_EnvironmentReleased ==
  /\ pc = "done" => env # "acquired"
  /\ pc = "after_with" => env = "released"

C3_Witness == pc = "done" /\ env = "released" /\ exc = "Error" /\ invoked # <<>>

\* C4: the exit status is 0 only if the dispatched handler returned without
\* raising; a Fail raised during dispatch is logged with the command name and
\* ends the process with status 1; an exception of another kind is not
\* caught by the envelope and never ends in status 0.
C4_FailureTranslation ==
  pc = "done" =>
    /\ exitStatus = 0 => (invoked # <<>> /\ exc = "none" /\ exitHow = "return")
    /\ (env = "released" /\ exc = "Fail") =>
         /\ exitStatus = 1
         /\ exitHow = "sys_exit"
         /\ log # <<>>
         /\ log[Len(log)] = LogRecord("Got exception while executing method", Lower(argv[1]))
    /\ (env = "released" /\ exc \notin { "none", "Fail" }) =>
         /\ exitStatus # 0
         /\ ~Logged("Got exception while executing method")
         /\ exc # "SystemExit" => exitHow = "uncaught"

C4_Witness ==
  /\ pc = "done" /\ invoked # <<>> /\ exc = "Fail" /\ exitStatus = 1
  /\ Logged("Got exception while executing method")

\* C5: a command file that is unreadable or is not valid JSON ends the
\* invocation as a handled config-load error: the diagnostic is logged and
\* the process exits with status 1 before any environment is acquired and
\* before any handler runs, for both causes alike.
C5_ConfigLoadErrorHandled ==
  (pc = "done" /\ Len(argv) >= 4 /\ cfgFile.state \in { "unreadable", "invalid" }) =>
    /\ Logged("Can not read json file with command parameters: ")
    /\ exitStatus = 1
    /\ exitHow = "sys_exit"
    /\ env = "none"
    /\ invoked = <<>>

\* C6: whenever a handler is executing, or has executed, Script.config holds
\* the document loaded from the command file, which is what get_config returns.
C6_ConfigBeforeHandler ==
  (pc \in HandlerPcs \/ invoked # <<>>) =>
    /\ cfgFile.state = "ok"
    /\ config = <<cfgFile.content>>

C6_Witness == pc = "in_handler" /\ invoked = <<n_start>> /\ config # <<>>

\* C7 as stated: the accumulated mapping is the left-to-right merge of the
\* reported field mappings: every reported key is present and holds the value
\* of the most recent call that contained it.
C7_MergeOfReports == IsMergeOf(structuredOut, SelectSeq(hist, IsReport))

\* C7 amended: the accumulated mapping is the left-to-right merge of the
\* reported field mappings and of the errMsg mappings that failed writes
\* record, in the order in which they happened: no key is ever deleted and
\* each key holds the value of the most recent of these mappings that has it.
C7_MergeOfUpdates == IsMergeOf(structuredOut, hist)

C7_Witness ==
  /\ \E i, j \in 1..Len(hist) :
       /\ i < j
       /\ hist[i].kind = "report" /\ hist[j].kind = "report"
       /\ "a" \in DOMAIN hist[i].map /\ "a" \in DOMAIN hist[j].map
       /\ hist[i].map["a"] # hist[j].map["a"]
       /\ structuredOut["a"] = hist[j].map["a"]
  /\ SomeWriteFailed

C9_FileIsLastSnapshot ==
  IF lastGood = <<>>
  THEN outFile = <<>>
  ELSE outFile # <<>> /\ Snapshot(outFile[1]) = lastGood[1]

\* C10: after a successful put_structured_out, decoding the content of the
\* output file once as JSON yields the accumulated mapping.
C10_DecodeOnce ==
  LastWriteOk => (outFile # <<>> /\ json_loads(outFile[1]) = PyDict(structuredOut))

(***************************************************************************)
(* Helpers of the properties of install_packages and of the envelope.      *)
(***************************************************************************)
IsPrefix(a, b) == Len(a) <= Len(b) /\ SubSeq(b, 1, Len(a)) = a

IsPackageCall(c) == c.op = "Package"

\* install or install_packages is the handler that was invoked
InstallInvoked == invoked # <<>> /\ invoked[1] \in { n_install, n_install_packages }

\* the handler has ended, by returning or by raising
HandlerEnded == pc \in { "unwinding", "after_with", "done" }

RegistrationCall == Call("install_repos", "")

CleanupCall == Call("remove_repos", "")

CleanupCalled == \E i \in 1..Len(calls) : calls[i] = CleanupCall

\* the package list of the command file is an array of descriptors that all
\* have a name
AllNamed(c) ==
  c.hlp /\ c.pl = "list" /\ \A i \in 1..Len(c.list) : c.list[i].name # <<>>

\* the calls a complete run makes for such a list
ExpectedCalls(c) ==
  <<RegistrationCall>> \o
  [i \in 1..Len(c.list) |-> Call("Package", c.list[i].name[1])] \o
  <<CleanupCall>>

\* the command file has no package list, or an empty one
NothingToInstall(c) == ~c.hlp \/ c.pl \in { "absent", "empty" }

\* the lowercase form of each command name of the model, written out
Lowered == [c \in CommandNames |-> IF c = n_START THEN n_start ELSE c]

\* some line on stderr starts with "Error: "
ErrorLineWritten == \E i \in 1..Len(stderr) : stderr[i].prefix = "Error: "

(***************************************************************************)
(* Properties of install_packages.                                         *)
(***************************************************************************)
\* C11: for a package list of n named descriptors, the calls install_packages
\* makes are, at every moment, a prefix of: registration, the n installations
\* with the names in list order, cleanup; and when install_packages has
\* returned, they are exactly that sequence (n installations, all after
\* registration and before cleanup).
C11_PackagesInOrder ==
  (cfgFile.state = "ok" /\ AllNamed(cfgFile.content) /\ InstallInvoked) =>
    /\ IsPrefix(calls, ExpectedCalls(cfgFile.content))
    /\ (HandlerEnded /\ exc = "none") => calls = ExpectedCalls(cfgFile.content)

C11_Witness ==
  /\ pc = "done" /\ exitStatus = 0
  /\ calls = << RegistrationCall, Call("Package", "foo"), Call("Package", "bar"),
                CleanupCall >>

\* C12: without hostLevelParams, without package_list, or with an empty
\* package_list, install_packages never invokes the installation primitive,
\* nothing is raised by the package step, and once registration has returned
\* the run goes on to cleanup: the calls are registration then cleanup, and
\* the process ends with status 0 when neither of them raised.
C12_NoPackageList ==
  (cfgFile.state = "ok" /\ NothingToInstall(cfgFile.content) /\ InstallInvoked) =>
    /\ SelectSeq(calls, IsPackageCall) = <<>>
    /\ IsPrefix(calls, << RegistrationCall, CleanupCall >>)
    /\ excFrom \in { "none", "install_repos", "remove_repos" }
    /\ (HandlerEnded /\ excFrom # "install_repos") =>
         calls = << RegistrationCall, CleanupCall >>
    /\ (pc = "done" /\ excFrom = "none") => exitStatus = 0

C12_Witness ==
  /\ pc = "done" /\ exitStatus = 0 /\ InstallInvoked
  /\ ~cfgFile.content.hlp
  /\ keyErrors = 1
  /\ calls = << RegistrationCall, CleanupCall >>

\* C13: if repository registration fails, cleanup is never invoked, no
\* package is installed, and the process ends with status 1.
C13_RegistrationFailure ==
  excFrom = "install_repos" =>
    /\ calls = << RegistrationCall >>
    /\ pc \in { "unwinding", "after_with", "done" }
    /\ pc = "done" => exitStatus = 1

C13_Witness ==
  excFrom = "install_repos" /\ exc = "Fail" /\ pc = "done" /\ exitStatus = 1

\* C14: cleanup is invoked if and only if registration succeeded: when
\* install_packages has ended, remove_repos has been called exactly when
\* install_repos returned, whatever the package step did.
C14_CleanupIffRegistered ==
  (InstallInvoked /\ HandlerEnded /\ calls # <<>>) =>
    (CleanupCalled <=> excFrom # "install_repos")

\* C15 as stated: a package_list that is not valid JSON is absorbed like a
\* missing key: nothing is raised, no package is installed and cleanup runs.
C15_BadJsonAbsorbed ==
  (cfgFile.state = "ok" /\ cfgFile.content.pl = "badjson" /\ InstallInvoked
     /\ HandlerEnded /\ excFrom # "install_repos") =>
    /\ excFrom # "json.loads"
    /\ SelectSeq(calls, IsPackageCall) = <<>>
    /\ CleanupCalled

\* C15 amended: a package_list that is not valid JSON is not absorbed: the
\* ValueError of json.loads leaves install_packages and execute uncaught, no
\* KeyError is caught, no package is installed, cleanup does not run and the
\* process ends with status 1.
C15_BadJsonPropagates ==
  (cfgFile.state = "ok" /\ cfgFile.content.pl = "badjson" /\ InstallInvoked
     /\ excFrom # "install_repos") =>
    /\ pc # "ip_cleanup"
    /\ keyErrors = 0
    /\ IsPrefix(calls, << RegistrationCall >>)
    /\ HandlerEnded => (exc = "ValueError" /\ excFrom = "json.loads")
    /\ pc = "done" => (exitHow = "uncaught" /\ exitStatus = 1)

C15_Witness ==
  /\ cfgFile.content.pl = "badjson" /\ pc = "done"
  /\ exc = "ValueError" /\ calls = << RegistrationCall >>

\* C16: whenever install_packages has absorbed a missing-key condition, the
\* installation primitive has been invoked zero times in that run, and
\* cleanup runs.
C16_KeyErrorMeansNoPackages ==
  keyErrors > 0 =>
    /\ SelectSeq(calls, IsPackageCall) = <<>>
    /\ HandlerEnded => CleanupCalled

(***************************************************************************)
(* Properties of the envelope.                                             *)
(***************************************************************************)
\* C17 as stated: the steps are taken in the order ParseArgs, SetupLogging,
\* LoadConfig, AcquireEnvironment, Dispatch (which resolves the command
\* name), ReleaseEnvironment, Exit.
C17_OrderAsStated ==
  IsPrefix(steps, << "ParseArgs", "SetupLogging", "LoadConfig",
                     "AcquireEnvironment", "Resolve", "Dispatch",
                     "ReleaseEnvironment", "Exit" >>)

\* C17 amended: the steps are taken in the order SetupLogging, ParseArgs,
\* LoadConfig, Resolve, AcquireEnvironment, Dispatch, ReleaseEnvironment,
\* Exit, a fatal step ending the run early: logging is set up before the
\* arguments are parsed, and the command name is resolved, with the
\* command-not-found check, before the environment is acquired.
C17_OrderOfCode ==
  /\ IsPrefix(steps, << "SetupLogging", "ParseArgs", "LoadConfig", "Resolve",
                        "AcquireEnvironment", "Dispatch", "ReleaseEnvironment",
                        "Exit" >>)
  /\ command_name # <<>> => loggers # {}
  /\ env # "none" => method # <<>>
  /\ invoked # <<>> => env # "none"

C17_Witness ==
  /\ pc = "done"
  /\ steps = << "SetupLogging", "ParseArgs", "LoadConfig", "Resolve",
                "AcquireEnvironment", "Dispatch", "ReleaseEnvironment", "Exit" >>

\* C18 as stated: whenever the handler source has an operation whose name
\* equals the command name ignoring case, that operation is invoked.
C18_CaseInsensitiveBothSides ==
  (pc = "done" /\ config # <<>>
     /\ \E op \in handlerSource : Lower(op) = Lower(argv[1])) =>
    \E op \in handlerSource : Lower(op) = Lower(argv[1]) /\ invoked = <<op>>

\* C18 amended: only the command name is lowercased: an operation of the
\* handler source is invoked, inside the acquired environment, exactly when
\* its name equals the lowercased command name; an operation whose own name
\* has upper-case letters is never invoked.
C18_CommandLowercasedOnly ==
  /\ pc = "in_handler" => env = "acquired"
  /\ \A i \in 1..Len(invoked) : invoked[i] = Lowered[argv[1]]
  /\ (pc = "done" /\ config # <<>>) =>
       IF Lowered[argv[1]] \in handlerSource
       THEN invoked = << Lowered[argv[1]] >> /\ env = "released"
       ELSE \A i \in 1..Len(invoked) : invoked[i] \notin handlerSource

C18_Witness ==
  /\ pc = "done" /\ invoked = << n_start >>
  /\ argv[1] = n_START /\ n_Stop \in handlerSource

\* C19 as stated: every fatal condition that ends the invocation with exit
\* status 1 through sys.exit has written a line "Error: <message>" to stderr.
C19_ErrorLineAlways ==
  (pc = "done" /\ exitHow = "sys_exit" /\ exitStatus = 1) => ErrorLineWritten

\* C19 amended: the line "Error: <message>" is written by fail_with_error
\* alone, when a handler calls it, before the process exits with status 1;
\* the fatal conditions of the envelope (argument error, unreadable command
\* file, missing command, Fail caught) write the logged diagnostic in the
\* format of the logger and no "Error: " line.
C19_ErrorLineOnlyFromHandler ==
  /\ ErrorLineWritten <=> exc = "SystemExit"
  /\ (pc = "done" /\ exitHow = "sys_exit") =>
       /\ exitStatus = 1
       /\ stderr # <<>>
       /\ IF exc = "SystemExit"
          THEN stderr[Len(stderr)].prefix = "Error: "
          ELSE /\ log # <<>>
               /\ stderr[Len(stderr)] =
                    [ prefix |-> "asctime - resource_management - ERROR - ",
                      msg |-> log[Len(log)].msg ]

C19_Witness ==
  /\ pc = "done" /\ exc = "SystemExit" /\ exitStatus = 1
  /\ stderr = << [prefix |-> "Error: ", msg |-> "message"] >>

\* C20: a lowercased command name that matches only an attribute of the
\* Script object that is no handler operation is rejected with the
\* command-not-found diagnostic and exit status 1, and no environment is
\* acquired for it.
C20_NonHandlerRejected ==
  (pc = "done" /\ config # <<>>
     /\ command_name \in attrs \ (handlerSource \cup EnvMethods)) =>
    /\ Logged("Script has not method")
    /\ exitStatus = 1
    /\ env = "none"

=============================================================================
